---- MODULE Spec2Model ----
(***************************************************************************)
(* Two Bela example programs:                                              *)
(*   examples/terminal-only/samples/main.cpp        (sample playback)      *)
(*   examples/Trill/trill-square-oscillator-pad-A/render.cpp  (Trill pad)  *)
(* A behaviour is one run of one of the two programs (variable prog).      *)
(*                                                                         *)
(* Number representation.  C floats are modelled as exact fixed-point      *)
(* integers, each quantity in the unit in which the code's arithmetic on   *)
(* the modelled inputs is exact:                                           *)
(*   gTouchPosition[i], panning, gAmpL, gAmpR : units of 1/PosOne          *)
(*   gTouchSize, amplitude, out               : units of 1/SizeOne         *)
(*   frequency                                : units of 1/FreqDen Hz      *)
(*   audioWrite sample                        : units of 1/(PosOne*SizeOne)*)
(***************************************************************************)
EXTENDS Integers, Sequences, FiniteSets

\* ------------------------------------------------------------------------
\* Bounds of the model
\* ------------------------------------------------------------------------
MaxArgs == 2
MaxFrames == 1
MaxSignals == 2
MaxPolls == 2
MaxSamples == 2

\* ------------------------------------------------------------------------
\* State
\* ------------------------------------------------------------------------
VARIABLES
  prog,           \* which program this run executes: "samples" or "pad"
  gShouldStop,    \* Bela's global stop flag
  \* --- samples/main.cpp ---
  mpc,            \* position of main()
  argv,           \* the options getopt will return, in order
  optind,         \* index of the next option
  fileName,       \* main()'s fileName
  sampleData,     \* main()'s SampleData
  ret,            \* main()'s return value (-1 while running)
  calls,          \* how often each library routine has been called
  handlers,       \* signals for which interrupt_handler is installed
  fileInfo,       \* what sf_open found for the file (set by initFile)
  smpOnEntry,     \* sampleData on entry to initFile
  failed,         \* which start-up step has failed, or "none"
  sigAfterStart,  \* a stop signal was delivered after Bela_startAudio succeeded
  signalsLeft,    \* stop signals the environment may still deliver
  \* --- Trill pad render.cpp: setup() ---
  setupRet,       \* what setup() returned: "none" before it has run, then "true" or "false"
  sensor,         \* what touchSensor.setup() and deviceType() answered
  auxTasks,       \* auxiliary tasks created and scheduled
  \* --- Trill pad render.cpp: loop() ---
  lpc,            \* position of loop()
  touchSensor,    \* the touch slots held by the Trill object
  gTouchPosition, \* [0]: horizontal, [1]: vertical
  gTouchSize,
  avgLocation,    \* locals of loop()
  avgSize,
  numTouches,
  prev,           \* the published values when the current iteration began
  same,           \* which slots of this poll equal those of the poll before
  pollsDone,      \* completed iterations of loop()
  pollsLeft,      \* iterations loop() may still begin
  startedAfterStop, \* an iteration began although gShouldStop was set
  \* --- Trill pad render.cpp: render() ---
  rpc,            \* position of render() within the current frame
  context,        \* the BelaContext fields render() reads
  freqFilt, panFilt, ampFilt,
  osc,            \* the oscillator's frequency
  gAmpL, gAmpR,
  rd,             \* the shared values render() read for the current frame
  readsInRange,   \* every gTouchPosition[1] read so far lay in [0,1]
  frame,          \* render()'s locals of the current frame
  written,        \* audioWrite calls of the current frame, per channel
  framesDone,     \* frames render() has completed
  samplesLeft     \* frames render() may still begin

mainVars == <<mpc, argv, optind, fileName, sampleData, ret, calls, handlers,
              fileInfo, smpOnEntry, failed, sigAfterStart, signalsLeft>>

setupVars == <<setupRet, sensor, auxTasks>>

loopVars == <<lpc, touchSensor, gTouchPosition, gTouchSize, avgLocation,
              avgSize, numTouches, prev, same, pollsDone, pollsLeft,
              startedAfterStop>>

filters == <<freqFilt, panFilt, ampFilt>>

renderVars == <<rpc, context, osc, gAmpL, gAmpR, rd, readsInRange, frame,
                written, framesDone, samplesLeft>>

padVars == <<setupVars, loopVars, filters, renderVars>>

vars == <<prog, gShouldStop, mainVars, padVars>>

\* ------------------------------------------------------------------------
\* samples/main.cpp
\* ------------------------------------------------------------------------
FileNames == {"", "a.wav", "b.wav"}

\* What Bela_getopt_long can return for one option of the command line:
\* 'h', 'f' with its argument, or '?' for an option it does not recognise.
Options ==
  {[opt |-> "h", arg |-> ""], [opt |-> "?", arg |-> ""]}
    \cup {[opt |-> "f", arg |-> a] : a \in FileNames}

CommandLines == UNION {[1..n -> Options] : n \in 0..MaxArgs}

\* What libsndfile reports for the file at the path given.
Files == [opens : BOOLEAN, channels : {1, 2}, frames : 0..MaxFrames]

NullSampleData == [samples |-> "NULL", sampleLen |-> -1]

NoCalls ==
  [usage |-> 0, settingsFree |-> 0, initFile |-> 0, initAudio |-> 0,
   startAudio |-> 0, stopAudio |-> 0, cleanupAudio |-> 0]

\* initFile with the buffer allocated before the channel count is tested.
initFile_allocatesFirst(file, smp) ==
  IF ~file.opens THEN [ret |-> 1, smp |-> smp]
  ELSE [ret |-> IF file.channels # 1 THEN 1 ELSE 0,
        smp |-> [samples |-> "new float[]",
                 sampleLen |-> file.frames * file.channels]]

\* int initFile(string file, SampleData *smp): the result and *smp afterwards.
initFile(file, smp) ==
  IF ~file.opens THEN [ret |-> 1, smp |-> smp]
  ELSE IF file.channels # 1 THEN [ret |-> 1, smp |-> smp]
  ELSE [ret |-> 0,
        smp |-> [samples |-> "new float[]",
                 sampleLen |-> file.frames * file.channels]]

\* void usage(const char*): prints; counted.
usage(c) == [c EXCEPT !.usage = @ + 1]

\* main(), lines 132-135 and 157-162: getopt has no more options.
main_getopt_end ==
  /\ prog = "samples" /\ mpc = "getopt"
  /\ optind > Len(argv)
  /\ fileName' = IF fileName = "" THEN "sample.wav" ELSE fileName
  /\ mpc' = "initFile"
  /\ UNCHANGED padVars
  /\ UNCHANGED <<prog, gShouldStop, argv, optind, sampleData, ret, calls,
                 handlers, fileInfo, smpOnEntry, failed, sigAfterStart,
                 signalsLeft>>

\* main(), case 'h' then lines 150-154.
main_getopt_help ==
  /\ prog = "samples" /\ mpc = "getopt"
  /\ optind <= Len(argv) /\ argv[optind].opt = "h"
  /\ optind' = optind + 1
  /\ calls' = [usage(calls) EXCEPT !.settingsFree = @ + 1]
  /\ ret' = 0
  /\ mpc' = "done"
  /\ UNCHANGED padVars
  /\ UNCHANGED <<prog, gShouldStop, argv, fileName, sampleData, handlers,
                 fileInfo, smpOnEntry, failed, sigAfterStart, signalsLeft>>

\* case 'f' keeping the first file name given instead of the last.
main_getopt_file_keepsFirst ==
  /\ prog = "samples" /\ mpc = "getopt"
  /\ optind <= Len(argv) /\ argv[optind].opt = "f"
  /\ optind' = optind + 1
  /\ fileName' = IF fileName = "" THEN argv[optind].arg ELSE fileName
  /\ UNCHANGED padVars
  /\ UNCHANGED <<prog, gShouldStop, mpc, argv, sampleData, ret, calls,
                 handlers, fileInfo, smpOnEntry, failed, sigAfterStart,
                 signalsLeft>>

\* main(), case 'f'.
main_getopt_file ==
  /\ prog = "samples" /\ mpc = "getopt"
  /\ optind <= Len(argv) /\ argv[optind].opt = "f"
  /\ optind' = optind + 1
  /\ fileName' = argv[optind].arg
  /\ UNCHANGED padVars
  /\ UNCHANGED <<prog, gShouldStop, mpc, argv, sampleData, ret, calls,
                 handlers, fileInfo, smpOnEntry, failed, sigAfterStart,
                 signalsLeft>>

\* main(), default case then lines 150-154.
main_getopt_default ==
  /\ prog = "samples" /\ mpc = "getopt"
  /\ optind <= Len(argv) /\ argv[optind].opt \notin {"h", "f"}
  /\ optind' = optind + 1
  /\ calls' = [usage(calls) EXCEPT !.settingsFree = @ + 1]
  /\ ret' = 1
  /\ mpc' = "done"
  /\ UNCHANGED padVars
  /\ UNCHANGED <<prog, gShouldStop, argv, fileName, sampleData, handlers,
                 fileInfo, smpOnEntry, failed, sigAfterStart, signalsLeft>>

\* main(), lines 164-169.
main_initFile ==
  /\ prog = "samples" /\ mpc = "initFile"
  /\ \E f \in Files :
       LET r == initFile(f, sampleData) IN
         /\ fileInfo' = f
         /\ smpOnEntry' = sampleData
         /\ sampleData' = r.smp
         /\ calls' = [calls EXCEPT !.initFile = @ + 1]
         /\ IF r.ret # 0
              THEN ret' = 1 /\ mpc' = "done" /\ failed' = "initFile"
              ELSE ret' = ret /\ mpc' = "initAudio" /\ failed' = failed
  /\ UNCHANGED padVars
  /\ UNCHANGED <<prog, gShouldStop, argv, optind, fileName, handlers,
                 sigAfterStart, signalsLeft>>

\* main() going on to start the audio although Bela_initAudio() failed.
main_afterInitAudio_ignoresFailure(ok) == [ret |-> -1, mpc |-> "startAudio"]

\* What main() does after Bela_initAudio() returned ok (lines 176-181).
main_afterInitAudio(ok) ==
  IF ok THEN [ret |-> -1, mpc |-> "startAudio"]
        ELSE [ret |-> 1, mpc |-> "done"]

\* main(), lines 175-181.
main_initAudio ==
  /\ prog = "samples" /\ mpc = "initAudio"
  /\ \E ok \in BOOLEAN :
       LET r == main_afterInitAudio(ok) IN
         /\ ret' = r.ret /\ mpc' = r.mpc
         /\ failed' = IF ok THEN failed ELSE "initAudio"
  /\ calls' = [calls EXCEPT !.initAudio = @ + 1, !.settingsFree = @ + 1]
  /\ UNCHANGED padVars
  /\ UNCHANGED <<prog, gShouldStop, argv, optind, fileName, sampleData,
                 handlers, fileInfo, smpOnEntry, sigAfterStart, signalsLeft>>

\* main(), lines 183-187.
main_startAudio ==
  /\ prog = "samples" /\ mpc = "startAudio"
  /\ calls' = [calls EXCEPT !.startAudio = @ + 1]
  /\ \E ok \in BOOLEAN :
       IF ok THEN ret' = ret /\ mpc' = "signal_SIGINT" /\ failed' = failed
             ELSE ret' = 1 /\ mpc' = "done" /\ failed' = "startAudio"
  /\ UNCHANGED padVars
  /\ UNCHANGED <<prog, gShouldStop, argv, optind, fileName, sampleData,
                 handlers, fileInfo, smpOnEntry, sigAfterStart, signalsLeft>>

\* main(), line 190.
main_signal_SIGINT ==
  /\ prog = "samples" /\ mpc = "signal_SIGINT"
  /\ handlers' = handlers \cup {"SIGINT"}
  /\ mpc' = "signal_SIGTERM"
  /\ UNCHANGED padVars
  /\ UNCHANGED <<prog, gShouldStop, argv, optind, fileName, sampleData, ret,
                 calls, fileInfo, smpOnEntry, failed, sigAfterStart,
                 signalsLeft>>

\* main(), line 191.
main_signal_SIGTERM ==
  /\ prog = "samples" /\ mpc = "signal_SIGTERM"
  /\ handlers' = handlers \cup {"SIGTERM"}
  /\ mpc' = "run"
  /\ UNCHANGED padVars
  /\ UNCHANGED <<prog, gShouldStop, argv, optind, fileName, sampleData, ret,
                 calls, fileInfo, smpOnEntry, failed, sigAfterStart,
                 signalsLeft>>

\* main(), lines 193-196: one test of the flag; usleep when it is not set.
main_run ==
  /\ prog = "samples" /\ mpc = "run"
  /\ mpc' = IF gShouldStop THEN "stopAudio" ELSE "run"
  /\ UNCHANGED padVars
  /\ UNCHANGED <<prog, gShouldStop, argv, optind, fileName, sampleData, ret,
                 calls, handlers, fileInfo, smpOnEntry, failed, sigAfterStart,
                 signalsLeft>>

\* main(), lines 198-199.
main_stopAudio ==
  /\ prog = "samples" /\ mpc = "stopAudio"
  /\ calls' = [calls EXCEPT !.stopAudio = @ + 1]
  /\ mpc' = "cleanupAudio"
  /\ UNCHANGED padVars
  /\ UNCHANGED <<prog, gShouldStop, argv, optind, fileName, sampleData, ret,
                 handlers, fileInfo, smpOnEntry, failed, sigAfterStart,
                 signalsLeft>>

\* main(), lines 201-205.
main_cleanupAudio ==
  /\ prog = "samples" /\ mpc = "cleanupAudio"
  /\ calls' = [calls EXCEPT !.cleanupAudio = @ + 1]
  /\ ret' = 0
  /\ mpc' = "done"
  /\ UNCHANGED padVars
  /\ UNCHANGED <<prog, gShouldStop, argv, optind, fileName, sampleData,
                 handlers, fileInfo, smpOnEntry, failed, sigAfterStart,
                 signalsLeft>>

AudioRunning == mpc \in {"signal_SIGINT", "signal_SIGTERM", "run",
                         "stopAudio", "cleanupAudio"}

\* The operating system delivers SIGINT or SIGTERM to the running process.
\* With interrupt_handler installed for it (lines 190-191) the handler runs
\* (lines 91-95); without, the signal's default disposition ends the process.
deliver_signal ==
  /\ prog = "samples" /\ mpc \notin {"done", "killed"}
  /\ signalsLeft > 0
  /\ signalsLeft' = signalsLeft - 1
  /\ sigAfterStart' = (sigAfterStart \/ AudioRunning)
  /\ \E sig \in {"SIGINT", "SIGTERM"} :
       IF sig \in handlers
         THEN gShouldStop' = TRUE /\ mpc' = mpc
         ELSE gShouldStop' = gShouldStop /\ mpc' = "killed"
  /\ UNCHANGED padVars
  /\ UNCHANGED padVars
  /\ UNCHANGED <<prog, argv, optind, fileName, sampleData, ret, calls,
                 handlers, fileInfo, smpOnEntry, failed>>

\* ------------------------------------------------------------------------
\* Trill pad, render.cpp: globals and library arithmetic
\* ------------------------------------------------------------------------
PosOne == 1792
gTouchSizeRange == <<500, 6000>>
gFreqRange == <<200, 1500>>
SizeOne == gTouchSizeRange[2] - gTouchSizeRange[1]
FreqDen == PosOne \div 4

RECURSIVE GCD(_, _)
GCD(a, b) == IF b = 0 THEN a ELSE GCD(b, a % b)

\* Bela's map(): (x - in_min) * (out_max - out_min) / (in_max - in_min) + out_min.
\* The fraction is reduced before multiplying; the value is the same.
map(x, in_min, in_max, out_min, out_max) ==
  LET g == GCD(out_max - out_min, in_max - in_min) IN
    ((x - in_min) * ((out_max - out_min) \div g)) \div ((in_max - in_min) \div g)
      + out_min

\* Bela's constrain().
constrain(x, lo, hi) == IF x < lo THEN lo ELSE IF x > hi THEN hi ELSE x

\* OnePole: setup() stores the coefficient a = num/den and clears the state;
\* process(x) computes y = ym1 + a * (x - ym1) and stores it.
OnePole_setup(a) == [num |-> a[1], den |-> a[2], ym1 |-> 0]

OnePole_process(f, x) ==
  [f EXCEPT !.ym1 = f.ym1 + (f.num * (x - f.ym1)) \div f.den]

\* The coefficients 1 - exp(-2 pi fc / fs) the sample rates considered give,
\* as fractions <<num, den>> in (0, 1).
SmoothCoefs == {<<1, 2>>}

\* Values Oscillator::process() may return, in [-1, 1].
OscVals == {-1, 1}

\* context->audioOutChannels
OutChannelCounts == {1, 3}

\* ------------------------------------------------------------------------
\* Trill pad, render.cpp: the sensor
\* ------------------------------------------------------------------------
\* What readLocations() can leave in the Trill object.  A vertical slot is
\* <<touchLocation(i), touchSize(i)>>, a horizontal slot is
\* touchHorizontalLocation(i); numberOfTouches() and
\* numberOfHorizontalTouches() are the lengths.  Location 0 is a slot that
\* holds no touch.
VerticalReadings ==
  {<<>>,
   <<[loc |-> 0, size |-> 0]>>,
   <<[loc |-> 896, size |-> 3250]>>,
   <<[loc |-> 895, size |-> 100]>>,
   <<[loc |-> 1792, size |-> 7000]>>,
   <<[loc |-> 895, size |-> 100], [loc |-> 896, size |-> 3250]>>,
   <<[loc |-> 0, size |-> 3250], [loc |-> 896, size |-> 3250]>>,
   <<[loc |-> 895, size |-> 3250], [loc |-> 0, size |-> 0],
     [loc |-> 896, size |-> 3251]>>}

HorizontalReadings ==
  {<<>>, <<0>>, <<896>>, <<895, 896>>, <<0, 1792>>}

SensorReadings == [v : VerticalReadings, h : HorizontalReadings]

\* The int that the conversion of a NaN float can leave: the conversion is
\* undefined; a negative, zero and a positive int stand for its outcomes.
UndefInts == {-32768, 0, 32767}

\* ------------------------------------------------------------------------
\* Trill pad, render.cpp: setup()
\* ------------------------------------------------------------------------
DeviceTypes == {"TWOD", "ONED"}

\* setup(), lines 118-129: whether setup() goes on to create the task.
setup_passes(s) == s.setup = 0 /\ s.deviceType = "TWOD"

\* setup(), lines 116-143.
setup ==
  /\ prog = "pad" /\ setupRet = "none"
  /\ \E s \in [setup : {0, 1}, deviceType : DeviceTypes], a \in SmoothCoefs :
       /\ sensor' = s
       /\ IF setup_passes(s)
            THEN /\ setupRet' = "true"
                 /\ auxTasks' = auxTasks + 1
                 /\ lpc' = "while"
                 /\ freqFilt' = OnePole_setup(a)
                 /\ panFilt' = OnePole_setup(a)
                 /\ ampFilt' = OnePole_setup(a)
                 /\ osc' = gFreqRange[1] * FreqDen
                 /\ rpc' = "l151"
            ELSE /\ setupRet' = "false"
                 /\ UNCHANGED <<auxTasks, lpc, filters, osc, rpc>>
  /\ UNCHANGED <<prog, gShouldStop, mainVars, touchSensor, gTouchPosition,
                 gTouchSize, avgLocation, avgSize, numTouches, prev, same,
                 pollsDone, pollsLeft, startedAfterStop, context, gAmpL, gAmpR,
                 rd, readsInRange, frame, written, framesDone, samplesLeft>>

\* Bela sets gShouldStop (its signal handler, Bela_requestStop()).
request_stop ==
  /\ prog = "pad" /\ ~gShouldStop
  /\ gShouldStop' = TRUE
  /\ UNCHANGED <<prog, mainVars, padVars>>

\* ------------------------------------------------------------------------
\* Trill pad, render.cpp: loop()
\* ------------------------------------------------------------------------
\* Every slot counted as a touch, the test of the location left out.
touchActive_always(location) == TRUE

\* loop(), line 84 and line 101: the slot counts as a touch.
touchActive(location) == location # 0

\* loop(), lines 79-89: the sums over the first n vertical slots.
RECURSIVE sumVertical(_, _)
sumVertical(slots, n) ==
  IF n = 0 THEN [avgLocation |-> 0, avgSize |-> 0, numTouches |-> 0]
  ELSE LET r == sumVertical(slots, n - 1) IN
         IF touchActive(slots[n].loc)
           THEN [avgLocation |-> r.avgLocation + slots[n].loc,
                 avgSize |-> r.avgSize + slots[n].size,
                 numTouches |-> r.numTouches + 1]
           ELSE r

\* loop(), lines 97-105: the sums over the first n horizontal slots.
RECURSIVE sumHorizontal(_, _)
sumHorizontal(slots, n) ==
  IF n = 0 THEN [avgHorizontalLocation |-> 0, numHorizontalTouches |-> 0]
  ELSE LET r == sumHorizontal(slots, n - 1) IN
         IF touchActive(slots[n])
           THEN [avgHorizontalLocation |-> r.avgHorizontalLocation + slots[n],
                 numHorizontalTouches |-> r.numHorizontalTouches + 1]
           ELSE r

\* loop(), lines 90, 91, 106: int = floor(1.0f * sum / n), the ints it can
\* leave.  n = 0 gives 0.0f / 0 = NaN, whose conversion to int is undefined.
floorAverage(sum, n) == IF n = 0 THEN UndefInts ELSE {sum \div n}

Published == [pos0 |-> gTouchPosition[0], pos1 |-> gTouchPosition[1],
              size |-> gTouchSize]

\* loop(), line 67 with gShouldStop set: the task ends.
loop_exit ==
  /\ prog = "pad" /\ lpc = "while" /\ gShouldStop
  /\ lpc' = "exit"
  /\ UNCHANGED <<prog, gShouldStop, mainVars, setupVars, filters, renderVars,
                 touchSensor, gTouchPosition, gTouchSize, avgLocation, avgSize,
                 numTouches, prev, same, pollsDone, pollsLeft, startedAfterStop>>

\* loop(), lines 67-91: the flag is clear, the sensor is read and the
\* vertical slots are averaged.
loop_read ==
  /\ prog = "pad" /\ lpc = "while" /\ ~gShouldStop
  /\ pollsLeft > 0
  /\ pollsLeft' = pollsLeft - 1
  /\ startedAfterStop' = (startedAfterStop \/ gShouldStop)
  /\ \E reading \in SensorReadings :
       LET s == sumVertical(reading.v, Len(reading.v)) IN
         /\ touchSensor' = reading
         /\ numTouches' = s.numTouches
         /\ avgLocation' \in floorAverage(s.avgLocation, s.numTouches)
         /\ avgSize' \in floorAverage(s.avgSize, s.numTouches)
         /\ same' = [v |-> pollsDone > 0 /\ reading.v = touchSensor.v,
                     h |-> pollsDone > 0 /\ reading.h = touchSensor.h]
  /\ prev' = Published
  /\ lpc' = "l92"
  /\ UNCHANGED <<prog, gShouldStop, mainVars, setupVars, filters, renderVars,
                 gTouchPosition, gTouchSize, pollsDone>>

\* loop(), line 92.
loop_l92 ==
  /\ prog = "pad" /\ lpc = "l92"
  /\ gTouchSize' = map(avgSize, gTouchSizeRange[1], gTouchSizeRange[2], 0, SizeOne)
  /\ lpc' = "l93"
  /\ UNCHANGED <<prog, gShouldStop, mainVars, setupVars, filters, renderVars,
                 touchSensor, gTouchPosition, avgLocation, avgSize, numTouches,
                 prev, same, pollsDone, pollsLeft, startedAfterStop>>

\* loop(), line 93.
loop_l93 ==
  /\ prog = "pad" /\ lpc = "l93"
  /\ gTouchSize' = constrain(gTouchSize, 0, SizeOne)
  /\ lpc' = "l94"
  /\ UNCHANGED <<prog, gShouldStop, mainVars, setupVars, filters, renderVars,
                 touchSensor, gTouchPosition, avgLocation, avgSize, numTouches,
                 prev, same, pollsDone, pollsLeft, startedAfterStop>>

\* loop(), line 94.
loop_l94 ==
  /\ prog = "pad" /\ lpc = "l94"
  /\ gTouchPosition' =
       [gTouchPosition EXCEPT ![1] = map(avgLocation, 0, 1792, 0, PosOne)]
  /\ lpc' = "l95"
  /\ UNCHANGED <<prog, gShouldStop, mainVars, setupVars, filters, renderVars,
                 touchSensor, gTouchSize, avgLocation, avgSize, numTouches,
                 prev, same, pollsDone, pollsLeft, startedAfterStop>>

\* loop(), line 95.
loop_l95 ==
  /\ prog = "pad" /\ lpc = "l95"
  /\ gTouchPosition' =
       [gTouchPosition EXCEPT ![1] = constrain(gTouchPosition[1], 0, PosOne)]
  /\ lpc' = "l97"
  /\ UNCHANGED <<prog, gShouldStop, mainVars, setupVars, filters, renderVars,
                 touchSensor, gTouchSize, avgLocation, avgSize, numTouches,
                 prev, same, pollsDone, pollsLeft, startedAfterStop>>

\* loop(), lines 97-108: the horizontal slots are averaged and the mapped
\* value is stored.
loop_l97 ==
  /\ prog = "pad" /\ lpc = "l97"
  /\ LET s == sumHorizontal(touchSensor.h, Len(touchSensor.h)) IN
       \E avgHorizontalLocation \in
            floorAverage(s.avgHorizontalLocation, s.numHorizontalTouches) :
         gTouchPosition' =
           [gTouchPosition EXCEPT
              ![0] = map(avgHorizontalLocation, 0, 1792, 0, PosOne)]
  /\ lpc' = "l109"
  /\ UNCHANGED <<prog, gShouldStop, mainVars, setupVars, filters, renderVars,
                 touchSensor, gTouchSize, avgLocation, avgSize, numTouches,
                 prev, same, pollsDone, pollsLeft, startedAfterStop>>

\* loop(), lines 109-113: the last store of the iteration, then usleep; the
\* locals of the loop body go out of scope.
loop_l109 ==
  /\ prog = "pad" /\ lpc = "l109"
  /\ gTouchPosition' =
       [gTouchPosition EXCEPT ![0] = constrain(gTouchPosition[0], 0, PosOne)]
  /\ avgLocation' = 0 /\ avgSize' = 0 /\ numTouches' = 0
  /\ pollsDone' = pollsDone + 1
  /\ lpc' = "while"
  /\ UNCHANGED <<prog, gShouldStop, mainVars, setupVars, filters, renderVars,
                 touchSensor, gTouchSize, prev, same, pollsLeft,
                 startedAfterStop>>

\* ------------------------------------------------------------------------
\* Trill pad, render.cpp: render()
\* ------------------------------------------------------------------------
NoWrites == [c \in 0..(context.audioOutChannels - 1) |-> <<>>]

\* Line 151 mapping into the touch size range instead of the frequency range.
render_frequency_wrongRange(position) ==
  map(position, 0, PosOne, gTouchSizeRange[1] * FreqDen,
      gTouchSizeRange[2] * FreqDen)

\* render(), line 151.
render_frequency(position) ==
  map(position, 0, PosOne, gFreqRange[1] * FreqDen, gFreqRange[2] * FreqDen)

\* render(), lines 147-154: the frequency of the next frame.
render_l151 ==
  /\ prog = "pad" /\ rpc = "l151"
  /\ samplesLeft > 0
  /\ samplesLeft' = samplesLeft - 1
  /\ LET f == OnePole_process(freqFilt, render_frequency(gTouchPosition[1])) IN
       /\ freqFilt' = f
       /\ osc' = f.ym1
       /\ frame' = [frequency |-> f.ym1, panning |-> 0, out |-> 0]
  /\ rd' = [rd EXCEPT !.pos1 = gTouchPosition[1]]
  /\ readsInRange' = (readsInRange /\ gTouchPosition[1] \in 0..PosOne)
  /\ written' = NoWrites
  /\ rpc' = "l157"
  /\ UNCHANGED <<prog, gShouldStop, mainVars, setupVars, loopVars, panFilt,
                 ampFilt, context, gAmpL, gAmpR, framesDone>>

\* render(), lines 156-160: the panning of the frame.
render_l157 ==
  /\ prog = "pad" /\ rpc = "l157"
  /\ LET f == OnePole_process(panFilt, gTouchPosition[0]) IN
       /\ panFilt' = f
       /\ frame' = [frame EXCEPT !.panning = f.ym1]
       /\ gAmpL' = PosOne - f.ym1
       /\ gAmpR' = f.ym1
  /\ rd' = [rd EXCEPT !.pos0 = gTouchPosition[0]]
  /\ rpc' = "l164"
  /\ UNCHANGED <<prog, gShouldStop, mainVars, setupVars, loopVars, freqFilt,
                 ampFilt, context, osc, readsInRange, written, framesDone,
                 samplesLeft>>

\* The channel loop writing the right gain to every channel but the first.
RECURSIVE writeChannels_elseRight(_, _, _, _, _)
writeChannels_elseRight(w, channel, ampL, ampR, out) ==
  IF channel >= context.audioOutChannels THEN w
  ELSE LET w1 == IF channel = 0
                   THEN [w EXCEPT ![channel] = Append(@, ampL * out)]
                   ELSE [w EXCEPT ![channel] = Append(@, ampR * out)]
       IN writeChannels_elseRight(w1, channel + 1, ampL, ampR, out)

\* render(), lines 169-175: the audioWrite calls of one frame, channel by
\* channel, added to w.
RECURSIVE writeChannels(_, _, _, _, _)
writeChannels(w, channel, ampL, ampR, out) ==
  IF channel >= context.audioOutChannels THEN w
  ELSE LET w1 == IF channel = 0
                   THEN [w EXCEPT ![channel] = Append(@, ampL * out)]
                 ELSE IF channel = 1
                   THEN [w EXCEPT ![channel] = Append(@, ampR * out)]
                 ELSE w
       IN writeChannels(w1, channel + 1, ampL, ampR, out)

\* render(), lines 162-176: the amplitude, the oscillator's sample and the
\* writes of the frame.
render_l164 ==
  /\ prog = "pad" /\ rpc = "l164"
  /\ \E o \in OscVals :
       LET f == OnePole_process(ampFilt, gTouchSize)
           out == f.ym1 * o
       IN /\ ampFilt' = f
          /\ frame' = [frame EXCEPT !.out = out]
          /\ written' = writeChannels(written, 0, gAmpL, gAmpR, out)
  /\ rd' = [rd EXCEPT !.size = gTouchSize]
  /\ framesDone' = framesDone + 1
  /\ rpc' = "l151"
  /\ UNCHANGED <<prog, gShouldStop, mainVars, setupVars, loopVars, freqFilt,
                 panFilt, context, osc, gAmpL, gAmpR, readsInRange,
                 samplesLeft>>

\* ------------------------------------------------------------------------
\* Initial states and next-state relations
\* ------------------------------------------------------------------------
\* How far a run of the pad is followed: the poll task alone for MaxPolls
\* iterations, or one iteration of the poll task beside MaxSamples frames of
\* the audio callback.
Budgets == {[polls |-> MaxPolls, samples |-> 0],
            [polls |-> 1, samples |-> MaxSamples]}

MainAtStart ==
  /\ gShouldStop = FALSE
  /\ mpc = "getopt"
  /\ optind = 1
  /\ fileName = ""
  /\ sampleData = NullSampleData
  /\ ret = -1
  /\ calls = NoCalls
  /\ handlers = {}
  /\ fileInfo = [opens |-> FALSE, channels |-> 1, frames |-> 0]
  /\ smpOnEntry = NullSampleData
  /\ failed = "none"
  /\ sigAfterStart = FALSE

PadAtStart ==
  /\ setupRet = "none"
  /\ sensor = [setup |-> 0, deviceType |-> "TWOD"]
  /\ auxTasks = 0
  /\ lpc = "idle"
  /\ touchSensor = [v |-> <<>>, h |-> <<>>]
  /\ gTouchPosition = [i \in {0, 1} |-> 0]
  /\ gTouchSize = 0
  /\ avgLocation = 0 /\ avgSize = 0 /\ numTouches = 0
  /\ prev = [pos0 |-> 0, pos1 |-> 0, size |-> 0]
  /\ same = [v |-> FALSE, h |-> FALSE]
  /\ pollsDone = 0
  /\ startedAfterStop = FALSE
  /\ rpc = "idle"
  /\ freqFilt = [num |-> 0, den |-> 1, ym1 |-> 0]
  /\ panFilt = [num |-> 0, den |-> 1, ym1 |-> 0]
  /\ ampFilt = [num |-> 0, den |-> 1, ym1 |-> 0]
  /\ osc = 0
  /\ gAmpL = PosOne /\ gAmpR = PosOne
  /\ rd = [pos0 |-> 0, pos1 |-> 0, size |-> 0]
  /\ readsInRange = TRUE
  /\ frame = [frequency |-> 0, panning |-> 0, out |-> 0]
  /\ framesDone = 0

InitSamples ==
  /\ prog = "samples"
  /\ MainAtStart
  /\ argv \in CommandLines
  /\ signalsLeft = MaxSignals
  /\ PadAtStart
  /\ context = [audioOutChannels |-> 2]
  /\ written = [c \in {0, 1} |-> <<>>]
  /\ pollsLeft = 0 /\ samplesLeft = 0

InitPad ==
  /\ prog = "pad"
  /\ MainAtStart
  /\ argv = <<>>
  /\ signalsLeft = 0
  /\ PadAtStart
  /\ context \in [audioOutChannels : OutChannelCounts]
  /\ written = [c \in 0..(context.audioOutChannels - 1) |-> <<>>]
  /\ \E b \in Budgets : pollsLeft = b.polls /\ samplesLeft = b.samples

NextSamples ==
  \/ main_getopt_end
  \/ main_getopt_help
  \/ main_getopt_file
  \/ main_getopt_default
  \/ main_initFile
  \/ main_initAudio
  \/ main_startAudio
  \/ main_signal_SIGINT
  \/ main_signal_SIGTERM
  \/ main_run
  \/ main_stopAudio
  \/ main_cleanupAudio
  \/ deliver_signal

NextPad ==
  \/ setup
  \/ request_stop
  \/ loop_exit
  \/ loop_read
  \/ loop_l92
  \/ loop_l93
  \/ loop_l94
  \/ loop_l95
  \/ loop_l97
  \/ loop_l109
  \/ render_l151
  \/ render_l157
  \/ render_l164

Init == InitSamples \/ InitPad

Next == NextSamples \/ NextPad

Spec == Init /\ [][Next]_vars

\* ------------------------------------------------------------------------
\* Properties
\* ------------------------------------------------------------------------
RECURSIVE SumOver(_, _)
SumOver(f, S) ==
  IF S = {} THEN 0
  ELSE LET x == CHOOSE y \in S : TRUE IN f[x] + SumOver(f, S \ {x})

\* The vertical slots of the poll that are touches, and the horizontal ones.
ActiveV == {i \in DOMAIN touchSensor.v : touchSensor.v[i].loc # 0}
ActiveH == {i \in DOMAIN touchSensor.h : touchSensor.h[i] # 0}
SumLoc == SumOver([i \in ActiveV |-> touchSensor.v[i].loc], ActiveV)
SumSize == SumOver([i \in ActiveV |-> touchSensor.v[i].size], ActiveV)

\* An iteration of loop() has just ended.
PollEnded == prog = "pad" /\ lpc = "while" /\ pollsDone > 0

\* loop() is between line 91 and the end of the iteration.
Averaged == prog = "pad" /\ lpc \in {"l92", "l93", "l94", "l95", "l97", "l109"}

\* C1: after a poll iteration with no active vertical slot, gTouchPosition[1]
\* and gTouchSize are what they were before the iteration; with no active
\* horizontal slot, gTouchPosition[0] is what it was before.
C1_NoTouchRetainsPublished ==
  PollEnded =>
    /\ ActiveV = {} =>
         gTouchPosition[1] = prev.pos1 /\ gTouchSize = prev.size
    /\ ActiveH = {} => gTouchPosition[0] = prev.pos0

\* C2: every value of gTouchPosition[0], gTouchPosition[1] and gTouchSize
\* that render() reads lies in [0, 1], wherever loop() is at that moment.
C2_RenderReadsInUnitRange ==
  /\ rd.pos0 \in 0..PosOne
  /\ rd.pos1 \in 0..PosOne
  /\ rd.size \in 0..SizeOne

\* C3 as stated: with k >= 1 active vertical slots, avgLocation and avgSize
\* are the arithmetic means sum / k of the active slots.
C3_AverageIsExactMean ==
  (Averaged /\ ActiveV # {}) =>
    /\ avgLocation * Cardinality(ActiveV) = SumLoc
    /\ avgSize * Cardinality(ActiveV) = SumSize

\* C3 as amended: with k >= 1 active vertical slots, avgLocation and avgSize
\* are the means of the active slots rounded down to an integer, inactive
\* slots counting in neither the sum nor k.
C3_AverageIsFloorOfMean ==
  (Averaged /\ ActiveV # {}) =>
    LET k == Cardinality(ActiveV) IN
      /\ numTouches = k
      /\ avgLocation * k <= SumLoc /\ SumLoc < (avgLocation + 1) * k
      /\ avgSize * k <= SumSize /\ SumSize < (avgSize + 1) * k

C3_Witness ==
  /\ Averaged /\ Cardinality(ActiveV) = 2
  /\ SumLoc % 2 = 1
  /\ avgLocation = 895

\* C4: a stop signal delivered after the audio device was started ends the
\* program only through the orderly shutdown: gShouldStop set, then
\* Bela_stopAudio() once, then Bela_cleanupAudio() once, then return 0, and
\* neither call while gShouldStop is false; the pad's poll loop begins no
\* iteration once the flag is set.
C4_StopSignalShutsDownOrderly ==
  /\ (sigAfterStart /\ mpc \in {"done", "killed"}) =>
       /\ gShouldStop
       /\ calls.stopAudio = 1 /\ calls.cleanupAudio = 1
       /\ mpc = "done" /\ ret = 0
  /\ calls.stopAudio <= 1 /\ calls.cleanupAudio <= calls.stopAudio
  /\ calls.stopAudio > 0 => gShouldStop
  /\ ~startedAfterStop
  /\ lpc = "exit" => gShouldStop

\* C5: when initFile() or Bela_initAudio() fails, main() returns nonzero and
\* Bela_startAudio() is never called; when touchSensor.setup() fails or the
\* device is not a TWOD, setup() returns false and no auxiliary task is
\* created or run; none of these steps is tried twice.
C5_ConfigErrorsAreTerminal ==
  /\ failed \in {"initFile", "initAudio"} =>
       /\ mpc = "done" /\ ret > 0
       /\ calls.startAudio = 0
  /\ calls.initFile <= 1 /\ calls.initAudio <= 1
  /\ (setupRet # "none" /\ (sensor.setup # 0 \/ sensor.deviceType # "TWOD")) =>
       /\ setupRet = "false"
       /\ auxTasks = 0 /\ lpc = "idle" /\ rpc = "idle"
  /\ auxTasks <= 1

C5_Witness == failed = "initAudio" /\ mpc = "done" /\ calls.settingsFree = 1

\* C6: initFile() on a file that opens but is not mono returns nonzero and
\* leaves smp->samples and smp->sampleLen as they were on entry.
C6_NonMonoFileRejected ==
  (calls.initFile > 0 /\ fileInfo.opens /\ fileInfo.channels # 1) =>
    /\ failed = "initFile" /\ ret = 1
    /\ sampleData = smpOnEntry

C6_Witness ==
  /\ calls.initFile = 1 /\ fileInfo.opens /\ fileInfo.channels = 2
  /\ fileInfo.frames > 0
  /\ sampleData.samples = "NULL"

\* The first option that is -h or unrecognised (0: none), and the argument of
\* the last -f ("": none).
FirstStop ==
  LET S == {i \in DOMAIN argv : argv[i].opt # "f"} IN
    IF S = {} THEN 0 ELSE CHOOSE i \in S : \A j \in S : i <= j

LastFileArg ==
  LET S == {i \in DOMAIN argv : argv[i].opt = "f"} IN
    IF S = {} THEN "" ELSE argv[CHOOSE i \in S : \A j \in S : j <= i].arg

\* C7: the first -h makes main() return 0 and the first unrecognised option
\* makes it return nonzero, each after usage() and freeing the settings and
\* with no file loaded and no audio initialised; otherwise the file loaded is
\* the argument of the last -f, or "sample.wav" when that gives no name.
C7_CommandLine ==
  /\ FirstStop # 0 =>
       /\ calls.initFile = 0 /\ calls.initAudio = 0
       /\ mpc = "done" =>
            /\ ret = IF argv[FirstStop].opt = "h" THEN 0 ELSE 1
            /\ calls.usage = 1 /\ calls.settingsFree = 1
            /\ optind = FirstStop + 1
  /\ (FirstStop = 0 /\ calls.initFile > 0) =>
       /\ fileName = IF LastFileArg = "" THEN "sample.wav" ELSE LastFileArg
       /\ calls.usage = 0

C7_Witness ==
  /\ calls.initFile = 1 /\ Len(argv) = 2
  /\ argv[1].opt = "f" /\ argv[2].opt = "f"
  /\ argv[1].arg = "a.wav" /\ argv[2].arg = "b.wav"
  /\ fileName = "b.wav"

\* render() has completed the frame whose locals are in frame.
FrameEnded == prog = "pad" /\ rpc = "l151" /\ framesDone > 0

\* C8: in every frame, channel 0 is written once with (1 - pan) * out,
\* channel 1, if there is one, once with pan * out, no other channel is
\* written, and the two gains add up to 1.
C8_LinearPanWrites ==
  /\ FrameEnded =>
       /\ written[0] = <<(PosOne - frame.panning) * frame.out>>
       /\ \A c \in DOMAIN written :
            /\ c = 1 => written[c] = <<frame.panning * frame.out>>
            /\ c >= 2 => written[c] = <<>>
       /\ frame.panning = panFilt.ym1
  /\ (prog = "pad" /\ (rpc = "l164" \/ framesDone > 0)) =>
       /\ gAmpL + gAmpR = PosOne
       /\ gAmpR = panFilt.ym1

C8_Witness ==
  /\ FrameEnded /\ context.audioOutChannels = 3
  /\ frame.out # 0
  /\ frame.panning > 0 /\ frame.panning < PosOne
  /\ written[1] # written[0]

FreqMin == gFreqRange[1] * FreqDen
FreqMax == gFreqRange[2] * FreqDen

\* C10 as stated: while every gTouchPosition[1] read lay in [0, 1], the
\* frequency given to the oscillator lies in [gFreqRange[0], gFreqRange[1]].
C10_FrequencyInRange ==
  (setupRet = "true" /\ readsInRange) => (osc >= FreqMin /\ osc <= FreqMax)

\* C10 as amended: while every gTouchPosition[1] read lay in [0, 1], the
\* frequency given to the oscillator lies in [0, gFreqRange[1]].
C10_FrequencyBelowMax ==
  (setupRet = "true" /\ readsInRange) => (osc >= 0 /\ osc <= FreqMax)

C10_Witness ==
  /\ setupRet = "true" /\ framesDone > 0 /\ readsInRange
  /\ rd.pos1 \in 0..PosOne
  /\ osc > 0 /\ osc < FreqMin

\* C9: two polls with the same horizontal slots publish the same horizontal
\* position, and two polls with the same vertical slots publish the same
\* vertical position and size, whatever the other axis holds.
C9_AxesIndependent ==
  (PollEnded /\ pollsDone >= 2) =>
    /\ same.h => gTouchPosition[0] = prev.pos0
    /\ same.v => (gTouchPosition[1] = prev.pos1 /\ gTouchSize = prev.size)

====
